---- MODULE Spec2Model ----
(***************************************************************************)
(* Model of the swagger request dispatcher of src/swagger.go: newConfig,   *)
(* Handler and the closure Handler returns (method guard, URI pattern,     *)
(* asset-server default, one-shot prefix binder, content-type switch and   *)
(* the four dispatch branches).                                            *)
(*                                                                         *)
(* Text that the code inspects character by character (request URIs, the   *)
(* prefix, the relative path, Location) is a sequence of one-character     *)
(* strings; text it only passes along (bodies, content types, option       *)
(* values) is a TLA+ string.                                               *)
(***************************************************************************)
EXTENDS Integers, Sequences, FiniteSets, TLC

(***************************************************************************)
(* Bound of the model: the directory segments in front of the final        *)
(* segment of a request URI.                                               *)
(***************************************************************************)
MaxDepth == 1

\* Bound of the model: the mutators in one call of newConfig
MaxFns == 2

(***************************************************************************)
(* Character sequences.                                                    *)
(***************************************************************************)
Empty == << >>
SLASH == "/"
QMARK == "?"
DOT == "."
BAR == "|"
IndexHtml == <<"i", "n", "d", "e", "x", ".", "h", "t", "m", "l">>
DocJson == <<"d", "o", "c", ".", "j", "s", "o", "n">>
ACss == <<"a", ".", "c", "s", "s">>
DirD == <<"d">>

\* s[i..] and s[..i]
From(s, i) == SubSeq(s, i, Len(s))
UpTo(s, i) == SubSeq(s, 1, i)

HasPrefix(s, p) == Len(p) <= Len(s) /\ UpTo(s, Len(p)) = p
HasSuffix(s, p) == Len(p) <= Len(s) /\ From(s, Len(s) - Len(p) + 1) = p

\* strings.Index(s, c) for a single character: 0 when absent
IndexOf(s, c) ==
    IF \E i \in 1..Len(s) : s[i] = c
    THEN CHOOSE i \in 1..Len(s) : s[i] = c /\ \A j \in 1..(i - 1) : s[j] # c
    ELSE 0

\* strings.LastIndex(s, c) for a single character: 0 when absent
LastIndexOf(s, c) ==
    IF \E i \in 1..Len(s) : s[i] = c
    THEN CHOOSE i \in 1..Len(s) : s[i] = c /\ \A j \in (i + 1)..Len(s) : s[j] # c
    ELSE 0

(***************************************************************************)
(* The pattern of swagger.go 151 and re.FindStringSubmatch (swagger.go     *)
(* 160).  Go's regexp prefers, at every choice, the leftmost alternative   *)
(* and the longest repetition of a greedy operator that lets the whole     *)
(* pattern match:                                                          *)
(*   group 1              the longest head ending in "/" for which the     *)
(*                        rest of the pattern matches the tail;            *)
(*   group 2 (optional)   taken whenever the tail is non-empty and does    *)
(*                        not start with "?", and then it is the whole     *)
(*                        tail (its dot-star is greedy and the class that  *)
(*                        follows matches the empty rest); otherwise the   *)
(*                        group is skipped and reported as "";             *)
(*   the final class      with group 2 skipped, the tail must consist of   *)
(*                        the characters "?", "|" and "." only.            *)
(* No character of the model is a newline, which a dot would not match.    *)
(***************************************************************************)
re == "^(.*/)([^?].*)?[?|.]*$"

\* The characters of the final class of re
TailClass == {QMARK, BAR, DOT}

\* Do group 2 and the final class match the tail that follows a head ending at i ?
TailMatches(uri, i) ==
    LET tail == From(uri, i + 1) IN
    \/ tail # Empty /\ tail[1] # QMARK
    \/ \A k \in 1..Len(tail) : tail[k] \in TailClass

\* The submatch of group 2 for the head ending at i
Group2(uri, i) ==
    LET tail == From(uri, i + 1) IN
    IF tail # Empty /\ tail[1] # QMARK THEN tail ELSE Empty

\* The positions at which group 1 can end
HeadEnds(uri) == {i \in 1..Len(uri) : uri[i] = SLASH /\ TailMatches(uri, i)}

\* A record for "no match" (FindStringSubmatch returns nil)
NoMatch == [ok |-> FALSE, m1 |-> Empty, m2 |-> Empty]

FindStringSubmatch(uri) ==
    IF HeadEnds(uri) = {}
    THEN NoMatch
    ELSE LET i == CHOOSE e \in HeadEnds(uri) : \A o \in HeadEnds(uri) : o <= e
         IN  [ok |-> TRUE, m1 |-> UpTo(uri, i), m2 |-> Group2(uri, i)]

(***************************************************************************)
(* filepath.Ext(path) (swagger.go 172): the suffix that starts at the last *)
(* dot of the last slash-separated element of path, "" when there is none. *)
(***************************************************************************)
Ext(path) ==
    LET lastSlash == LastIndexOf(path, SLASH)
        lastDot == LastIndexOf(path, DOT)
    IN  IF lastDot > lastSlash THEN From(path, lastDot) ELSE Empty

\* The content-type switch (swagger.go 172-183); "" is "header not set"
NoHeader == ""

\* A switch with the case of ".html" alone
ContentTypeOfHtmlOnly(path) ==
    IF Ext(path) = <<".", "h", "t", "m", "l">> THEN "text/html; charset=utf-8"
    ELSE NoHeader

ContentTypeOf(path) ==
    LET ext == Ext(path) IN
    IF ext = <<".", "h", "t", "m", "l">> THEN "text/html; charset=utf-8"
    ELSE IF ext = <<".", "c", "s", "s">> THEN "text/css; charset=utf-8"
    ELSE IF ext = <<".", "j", "s">> THEN "application/javascript"
    ELSE IF ext = <<".", "p", "n", "g">> THEN "image/png"
    ELSE IF ext = <<".", "j", "s", "o", "n">> THEN "application/json; charset=utf-8"
    ELSE NoHeader

(***************************************************************************)
(* path.Clean, as http.Redirect applies it to the part of the target that  *)
(* precedes "?": empty and "." elements are dropped, ".." removes the      *)
(* element before it (at the root it is dropped), and the result of a      *)
(* rooted path is "/" followed by the elements joined by "/".              *)
(***************************************************************************)
RECURSIVE Elements(_)
Elements(p) ==
    IF p = Empty THEN << >>
    ELSE LET i == IndexOf(p, SLASH) IN
         IF i = 0 THEN <<p>>
         ELSE <<UpTo(p, i - 1)>> \o Elements(From(p, i + 1))

RECURSIVE CleanElements(_, _, _)
CleanElements(els, acc, rooted) ==
    IF els = << >> THEN acc
    ELSE LET e == Head(els)
             dotdot == <<DOT, DOT>>
             next == IF e = Empty \/ e = <<DOT>> THEN acc
                     ELSE IF e = dotdot
                          THEN IF acc # << >> /\ acc[Len(acc)] # dotdot
                               THEN UpTo(acc, Len(acc) - 1)
                               ELSE IF rooted THEN acc ELSE Append(acc, e)
                          ELSE Append(acc, e)
         IN  CleanElements(Tail(els), next, rooted)

RECURSIVE Join(_)
Join(els) ==
    IF els = << >> THEN Empty
    ELSE IF Len(els) = 1 THEN els[1]
    ELSE els[1] \o <<SLASH>> \o Join(Tail(els))

Clean(p) ==
    LET rooted == p # Empty /\ p[1] = SLASH
        out == Join(CleanElements(Elements(p), << >>, rooted))
    IN  IF rooted THEN <<SLASH>> \o out
        ELSE IF out = Empty THEN <<DOT>> ELSE out

\* r.URL.Path of a request whose RequestURI is uri: the part before "?"
URLPath(uri) ==
    LET q == IndexOf(uri, QMARK) IN IF q = 0 THEN uri ELSE UpTo(uri, q - 1)

\* url.Parse(target).Host # "": the target starts with "//", not with "///",
\* and a character other than "?" follows (no scheme, "#" or "@" occurs in
\* the model's characters)
HasHost(target) ==
    LET rest == URLPath(target) IN
    HasPrefix(rest, <<SLASH, SLASH>>) /\ Len(rest) >= 3 /\ rest[3] # SLASH

(***************************************************************************)
(* The Location header http.Redirect(w, r, target, code) sets (swagger.go  *)
(* 198).  A target with a host is left as it is.  Any other target is made *)
(* absolute against the directory of r.URL.Path when it does not start     *)
(* with "/", and then its part before "?" is cleaned, a final "/" kept.    *)
(***************************************************************************)
RedirectLocation(target, uri) ==
    IF HasHost(target) THEN target
    ELSE LET oldpath == IF URLPath(uri) = Empty THEN <<SLASH>> ELSE URLPath(uri)
             olddir == UpTo(oldpath, LastIndexOf(oldpath, SLASH))
             abs == IF target = Empty \/ target[1] # SLASH
                    THEN olddir \o target ELSE target
             q == IndexOf(abs, QMARK)
             pth == IF q = 0 THEN abs ELSE UpTo(abs, q - 1)
             query == IF q = 0 THEN Empty ELSE From(abs, q)
             trailing == HasSuffix(pth, <<SLASH>>)
             cleaned == Clean(pth)
             kept == IF trailing /\ ~HasSuffix(cleaned, <<SLASH>>)
                     THEN cleaned \o <<SLASH>> ELSE cleaned
         IN  kept \o query

(***************************************************************************)
(* Config, the option mutators and newConfig (swagger.go 19-140).          *)
(***************************************************************************)
\* a nil *webdav.Handler
Nil == "nil"
\* the process-wide asset server swaggerFiles.Handler
SwaggerFiles == "swaggerFiles.Handler"
\* an asset server the caller passes to WebdavHandler
Custom == "custom"
AssetServers == {SwaggerFiles, Custom}

\* swag.Name
SwagName == "swagger"

\* A mutator is the option function's name with its argument
WebdavHandler(handler) == [fn |-> "WebdavHandler", arg |-> handler]
URL(url) == [fn |-> "URL", arg |-> url]
DeepLinking(deepLinking) == [fn |-> "DeepLinking", arg |-> deepLinking]
DocExpansion(docExpansion) == [fn |-> "DocExpansion", arg |-> docExpansion]
DomID(domID) == [fn |-> "DomID", arg |-> domID]
InstanceName(name) == [fn |-> "InstanceName", arg |-> name]
PersistAuthorization(persist) == [fn |-> "PersistAuthorization", arg |-> persist]
Plugins(plugins) == [fn |-> "Plugins", arg |-> plugins]
UIConfig(props) == [fn |-> "UIConfig", arg |-> props]
BeforeScript(js) == [fn |-> "BeforeScript", arg |-> js]
AfterScript(js) == [fn |-> "AfterScript", arg |-> js]

\* fn(&config): what each mutator assigns
Apply(fn, c) ==
    CASE fn.fn = "WebdavHandler" -> [c EXCEPT !.Handler = fn.arg]
      [] fn.fn = "URL" -> [c EXCEPT !.URL = fn.arg]
      [] fn.fn = "DeepLinking" -> [c EXCEPT !.DeepLinking = fn.arg]
      [] fn.fn = "DocExpansion" -> [c EXCEPT !.DocExpansion = fn.arg]
      [] fn.fn = "DomID" -> [c EXCEPT !.DomID = fn.arg]
      [] fn.fn = "InstanceName" -> [c EXCEPT !.InstanceName = fn.arg]
      [] fn.fn = "PersistAuthorization" -> [c EXCEPT !.PersistAuthorization = fn.arg]
      [] fn.fn = "Plugins" -> [c EXCEPT !.Plugins = fn.arg]
      [] fn.fn = "UIConfig" -> [c EXCEPT !.UIConfig = fn.arg]
      [] fn.fn = "BeforeScript" -> [c EXCEPT !.BeforeScript = fn.arg]
      [] fn.fn = "AfterScript" -> [c EXCEPT !.AfterScript = fn.arg]

\* The struct literal of newConfig; the fields it does not name are zero
Defaults ==
    [URL |-> "doc.json",
     DocExpansion |-> "list",
     DomID |-> "swagger-ui",
     InstanceName |-> "swagger",
     BeforeScript |-> "",
     AfterScript |-> "",
     Plugins |-> << >>,
     UIConfig |-> {},
     DeepLinking |-> TRUE,
     PersistAuthorization |-> FALSE,
     Handler |-> Nil]

RECURSIVE ApplyAll(_, _)
ApplyAll(configFns, c) ==
    IF configFns = << >> THEN c
    ELSE ApplyAll(Tail(configFns), Apply(Head(configFns), c))

\* newConfig without its last step (swagger.go 135-137)
newConfigKeepEmpty(configFns) == ApplyAll(configFns, Defaults)

newConfig(configFns) ==
    LET config == ApplyAll(configFns, Defaults) IN
    IF config.InstanceName = ""
    THEN [config EXCEPT !.InstanceName = SwagName]
    ELSE config

(***************************************************************************)
(* The inputs of the model.                                                *)
(***************************************************************************)
\* The mutators the dispatchers of the model are built with
Options == {WebdavHandler(Custom), InstanceName("v2"), InstanceName("")}

\* The argument lists of Handler(): none, one mutator, and two that set the
\* same field
OptionLists ==
    {<< >>} \cup {<<o>> : o \in Options}
    \cup {<<InstanceName("v2"), InstanceName("")>>}

Methods == {"GET", "POST", "HEAD"}

\* The directories a dispatcher is mounted under: "/", "/d/", "/d/d/", ...
RECURSIVE Mount(_)
Mount(n) == IF n = 0 THEN <<SLASH>> ELSE Mount(n - 1) \o DirD \o <<SLASH>>
Mounts == {Mount(n) : n \in 0..MaxDepth}

\* Final segments: none, the two well-known names, an asset, a plain name
Segments == {Empty, IndexHtml, DocJson, ACss, DirD}

\* Query strings: none, a bare "?", a parameter, one with a "/", one with a "."
Queries == {Empty, <<QMARK>>, <<QMARK, "d">>, <<QMARK, SLASH>>, <<QMARK, DOT>>}

(***************************************************************************)
(* The request URIs: the origin-form targets mount segment query, and the  *)
(* targets that hold no "/" at all (among them "", the RequestURI of a     *)
(* request made by http.NewRequest).                                       *)
(***************************************************************************)
URIs ==
    {m \o g \o q : m \in Mounts, g \in Segments, q \in Queries}
    \cup {g \o q : g \in Segments, q \in {Empty}}
    \cup {<<QMARK, "d">>}

(***************************************************************************)
(* The document registry (swag.ReadDoc, swagger.go 189): the instance      *)
(* names that are registered, each with its document.                      *)
(***************************************************************************)
InstanceNames == {"swagger", "v2"}
Doc(name) == IF name = "swagger" THEN "{\"swagger\":\"2.0\"}" ELSE "{\"openapi\":\"3.0\"}"

(***************************************************************************)
(* Responses.  A response is what the client gets: the status, the         *)
(* Content-Type and Location headers, and the body as the sequence of the  *)
(* texts written to it.  A panicked request gets none.                     *)
(***************************************************************************)
Response(status, ctype, location, body) ==
    [status |-> status, ctype |-> ctype, location |-> location,
     body |-> body, panicked |-> FALSE]

\* No response yet
NoResponse == Response(0, NoHeader, Empty, << >>)

\* matches[2] on a nil slice: index out of range (swagger.go 162)
Panicked == [NoResponse EXCEPT !.panicked = TRUE]

\* http.Error(w, msg, code): text/plain, the status, then msg as one line
Error(msg, code) == Response(code, "text/plain; charset=utf-8", Empty, <<msg, "\n">>)

\* http.StatusText for the codes the dispatcher and the asset server send;
\* a code without a text has the empty one
StatusText(code) ==
    CASE code = 200 -> "OK"
      [] code = 301 -> "Moved Permanently"
      [] code = 400 -> "Bad Request"
      [] code = 404 -> "Not Found"
      [] code = 405 -> "Method Not Allowed"
      [] code = 500 -> "Internal Server Error"
      [] OTHER -> ""

\* A guard that lets POST through as well
MethodNotAllowedButPost(method) == method \notin {"GET", "POST"}

\* The method guard (swagger.go 154)
MethodNotAllowed(method) == method # "GET"

\* swagger.go 155
MethodNotAllowedResponse == Error("Method not allowed", 405)

BoolText(b) == IF b THEN "true" ELSE "false"

\* The printable characters in the order of their bytes (without the double
\* quote, the backslash and the backquote)
Chars ==
    <<" ", "!", "#", "$", "%", "&", "'", "(", ")", "*", "+", ",", "-", ".", "/",
      "0", "1", "2", "3", "4", "5", "6", "7", "8", "9",
      ":", ";", "<", "=", ">", "?", "@",
      "A", "B", "C", "D", "E", "F", "G", "H", "I", "J", "K", "L", "M",
      "N", "O", "P", "Q", "R", "S", "T", "U", "V", "W", "X", "Y", "Z",
      "[", "]", "^", "_",
      "a", "b", "c", "d", "e", "f", "g", "h", "i", "j", "k", "l", "m",
      "n", "o", "p", "q", "r", "s", "t", "u", "v", "w", "x", "y", "z",
      "{", "|", "}", "~">>
Rank(c) == CHOOSE i \in DOMAIN Chars : Chars[i] = c

\* a < b for two strings, as Go compares them: byte by byte, and a proper
\* prefix is the smaller
KeyLess(a, b) ==
    \E i \in 1..Len(b) :
        /\ i <= Len(a) + 1
        /\ \A j \in 1..(i - 1) : a[j] = b[j]
        /\ IF i = Len(a) + 1 THEN TRUE ELSE Rank(a[i]) < Rank(b[i])

\* The pairs of a map in the order the template's range visits them: by
\* sorted key.  A key is a sequence of characters, a value a string.
RECURSIVE SetToSeq(_)
SetToSeq(S) ==
    IF S = {} THEN << >>
    ELSE LET x == CHOOSE y \in S : \A z \in S \ {y} : KeyLess(y[1], z[1])
         IN  <<x>> \o SetToSeq(S \ {x})

RECURSIVE Flatten(_)
Flatten(pairs) ==
    IF pairs = << >> THEN << >>
    ELSE <<Head(pairs)[1], ": ", Head(pairs)[2], ",">> \o Flatten(Tail(pairs))

(***************************************************************************)
(* index.Execute(w, config) (swagger.go 187, template at 205-523): the     *)
(* page is the template's fixed text with the fields the template names,   *)
(* in the template's order; config.Handler is not among them.  A range     *)
(* over the UIConfig map visits its keys in sorted order.                  *)
(***************************************************************************)
Execute(c) ==
    <<"BeforeScript", c.BeforeScript,
      "url", c.URL,
      "deepLinking", BoolText(c.DeepLinking),
      "docExpansion", c.DocExpansion,
      "dom_id", c.DomID,
      "persistAuthorization", BoolText(c.PersistAuthorization),
      "plugins">> \o c.Plugins \o
    <<"UIConfig">> \o Flatten(SetToSeq(c.UIConfig)) \o
    <<"AfterScript", c.AfterScript>>

\* swagger.go 186-187: the first write sends status 200
IndexResponse(c, ctype) == Response(200, ctype, Empty, Execute(c))

\* A document branch that reports the registry's error text to the client
DocResponseLeaking(registered, name, ctype) ==
    IF name \in registered
    THEN Response(200, ctype, Empty, <<Doc(name)>>)
    ELSE Error("can't find swag doc " \o name, 500)

\* swagger.go 188-196
DocResponse(registered, name, ctype) ==
    IF name \in registered
    THEN Response(200, ctype, Empty, <<Doc(name)>>)
    ELSE Error(StatusText(500), 500)

(***************************************************************************)
(* http.Redirect(w, r, target, 301) (swagger.go 198): Location, and for a  *)
(* GET whose Content-Type is not set yet, text/html and a link as body.    *)
(* No character of the model needs HTML escaping.                          *)
(***************************************************************************)
RedirectResponse(target, uri, ctype) ==
    LET location == RedirectLocation(target, uri) IN
    IF ctype = NoHeader
    THEN Response(301, "text/html; charset=utf-8", location,
                  <<"<a href=\"">> \o location
                  \o <<"\">", StatusText(301), "</a>.\n", "\n">>)
    ELSE Response(301, ctype, location, << >>)

(***************************************************************************)
(* config.Handler.ServeHTTP(w, r) (swagger.go 200) for a GET: the asset    *)
(* server strips its Prefix from r.URL.Path.  When the path does not start *)
(* with it, it calls WriteHeader(404) and writes the status text, without  *)
(* newline, and the Content-Type the closure set stays as it is; otherwise *)
(* the status and the bytes are those of its file system for the stripped  *)
(* name (status 0 stands for them).                                        *)
(***************************************************************************)
AssetResponse(server, prefix, uri, ctype) ==
    IF HasPrefix(URLPath(uri), prefix)
    THEN Response(0, ctype, Empty,
                  <<"file of", server>> \o From(URLPath(uri), Len(prefix) + 1))
    ELSE Response(404, ctype, Empty, <<StatusText(404)>>)

\* The dispatch switch (swagger.go 185-201)
Branch(path) ==
    IF path = IndexHtml THEN "index"
    ELSE IF path = DocJson THEN "doc"
    ELSE IF path = Empty THEN "redirect"
    ELSE "asset"

\* A default that also flips a field the template shows
DefaultHandlerFlipping(c) ==
    [c EXCEPT !.Handler = SwaggerFiles, !.DeepLinking = ~c.DeepLinking]

\* swagger.go 165: config.Handler = swaggerFiles.Handler
DefaultHandler(c) == [c EXCEPT !.Handler = SwaggerFiles]

\* One call of a collaborator or library function by the handler
Call(name, arg) == [call |-> name, arg |-> arg]

(***************************************************************************)
(* The state.                                                              *)
(***************************************************************************)
VARIABLES
    config,     \* the Config that Handler's closure holds (swagger.go 146)
    once,       \* the done flag of the sync.Once of the closure
    Prefix,     \* the Prefix field of each asset server
    registry,   \* the instance names registered with swag
    seenGET,    \* some GET request has been handled to its end
    onceM,      \* the mutex of the sync.Once: the goroutine holding it
    pc,         \* where each goroutine is in the closure
    greq,       \* the request each goroutine is handling
    gresp,      \* the response each goroutine has produced
    gtrace,     \* the calls each goroutine has made for its request, in order
    writes,     \* how often config.Handler.Prefix has been assigned
    configFns,  \* the mutators newConfig has still to apply (swagger.go 131)
    built,      \* newConfig has returned the Config
    trace,      \* the mutators newConfig has called, in order
    WrapHandler,\* the dispatcher of swagger.go 16: its Config, its Once and
                \* the mutex of that Once
    backing,    \* the string the Prefix of each asset server points into,
                \* followed where two dispatchers write Prefix unordered
    log         \* the last two requests dispatched, with what was answered

setup == <<configFns, built, trace>>
wrap == <<WrapHandler, backing>>
vars == <<config, once, Prefix, registry, seenGET, onceM, pc, greq, gresp,
          gtrace, writes, configFns, built, trace, WrapHandler, backing, log>>

\* The goroutines the hosting server runs the closure on
Goroutines == {"g1", "g2"}
Free == "free"

NoRequest == [method |-> "", uri |-> Empty]

(***************************************************************************)
(* Handler(configFns...) (swagger.go 143-151): a fresh Once, the Config    *)
(* from newConfig; the asset servers have no Prefix yet and no request has *)
(* arrived.                                                                *)
(***************************************************************************)
Init ==
    /\ config \in {newConfig(fns) : fns \in OptionLists}
    /\ once = FALSE
    /\ Prefix = [a \in AssetServers |-> Empty]
    /\ registry \in SUBSET InstanceNames
    /\ seenGET = FALSE
    /\ onceM = Free
    /\ pc = [g \in Goroutines |-> "idle"]
    /\ greq = [g \in Goroutines |-> NoRequest]
    /\ gresp = [g \in Goroutines |-> NoResponse]
    /\ gtrace = [g \in Goroutines |-> << >>]
    /\ writes = 0
    /\ configFns = << >>
    /\ built = TRUE
    /\ trace = << >>
    /\ WrapHandler = [config |-> newConfig(<< >>), once |-> FALSE, m |-> Free]
    /\ backing = [a \in AssetServers |-> Empty]
    /\ log = << >>

\* swagger.go 160: re.FindStringSubmatch(r.RequestURI) for each request URI
\* of the model.
Submatches == [u \in URIs |-> FindStringSubmatch(u)]

(***************************************************************************)
(* The two switches at the end of the closure (swagger.go 172-201) for a   *)
(* GET request the pattern matched, on the Config c, the prefixes of the   *)
(* asset servers and the registry as they are when the goroutine gets      *)
(* there: the response and the calls made.                                 *)
(***************************************************************************)
Switches(c, prefixes, registered, uri, matches) ==
    LET path == matches.m2
        server == c.Handler
        ctype == ContentTypeOf(path)
        branch == Branch(path)
        name == c.InstanceName
        response ==
            CASE branch = "index" -> IndexResponse(c, ctype)
              [] branch = "doc" -> DocResponse(registered, name, ctype)
              [] branch = "redirect" ->
                    RedirectResponse(prefixes[server] \o IndexHtml, uri, ctype)
              [] branch = "asset" ->
                    AssetResponse(server, prefixes[server], uri, ctype)
        calls ==
            <<Call("filepath.Ext", "")>>
            \o (IF ctype # NoHeader
                THEN <<Call("Header.Set Content-Type", ctype)>> ELSE << >>)
            \o (CASE branch = "index" -> <<Call("index.Execute", "")>>
                  [] branch = "doc" ->
                        <<Call("swag.ReadDoc", name)>>
                        \o (IF response.status = 200
                            THEN <<Call("w.Write", Doc(name))>>
                            ELSE <<Call("http.Error", StatusText(500))>>)
                  [] branch = "redirect" -> <<Call("http.Redirect", "")>>
                  [] branch = "asset" -> <<Call("config.Handler.ServeHTTP", server)>>)
    IN  [resp |-> response, calls |-> calls]

(***************************************************************************)
(* The closure Handler returns (swagger.go 153-202).  The hosting server   *)
(* runs it on a goroutine of its own for every request and nothing makes   *)
(* it atomic: a goroutine takes one step per access to what the goroutines *)
(* share, which is config.Handler, the Once and its mutex, the Prefix of   *)
(* the asset server and the registry.  sync.Once.Do loads its done flag;   *)
(* when it is not set it locks the mutex, looks at the flag again, runs    *)
(* the function, sets the flag and unlocks.                                *)
(***************************************************************************)
Goto(g, label) == pc' = [pc EXCEPT ![g] = label]

\* The goroutine makes a call
Calls(g, calls) == gtrace' = [gtrace EXCEPT ![g] = @ \o calls]

\* swagger.go 153-162: the method guard, the pattern match and matches[2]
Arrive(g, method, uri) ==
    /\ pc[g] = "idle"
    /\ greq' = [greq EXCEPT ![g] = [method |-> method, uri |-> uri]]
    /\ IF MethodNotAllowed(method)
       THEN /\ gresp' = [gresp EXCEPT ![g] = MethodNotAllowedResponse]
            /\ Calls(g, <<Call("http.Error", "Method not allowed")>>)
            /\ seenGET' = seenGET
            /\ Goto(g, "done")
       ELSE IF ~Submatches[uri].ok
       THEN /\ gresp' = [gresp EXCEPT ![g] = Panicked]
            /\ Calls(g, <<Call("re.FindStringSubmatch", ""), Call("panic", "")>>)
            /\ seenGET' = (seenGET \/ method = "GET")
            /\ Goto(g, "done")
       ELSE /\ gresp' = gresp
            /\ Calls(g, <<Call("re.FindStringSubmatch", "")>>)
            /\ seenGET' = seenGET
            /\ Goto(g, "nilcheck")
    /\ UNCHANGED <<config, once, Prefix, registry, onceM, writes, setup, wrap, log>>

\* swagger.go 164: the read of config.Handler
NilCheck(g) ==
    /\ pc[g] = "nilcheck"
    /\ Goto(g, IF config.Handler = Nil THEN "default" ELSE "once")
    /\ UNCHANGED <<config, once, Prefix, registry, seenGET, onceM, greq, gresp,
                   gtrace, writes, setup, wrap, log>>

\* swagger.go 165: the write of config.Handler
SetDefault(g) ==
    /\ pc[g] = "default"
    /\ config' = DefaultHandler(config)
    /\ Calls(g, <<Call("config.Handler =", SwaggerFiles)>>)
    /\ Goto(g, "once")
    /\ UNCHANGED <<once, Prefix, registry, seenGET, onceM, greq, gresp, writes,
                   setup, wrap, log>>

\* A Once that lets every caller pass at once
OncePathOpen(done) == "dispatch"

\* once.Do: past it when the done flag is set, to the mutex when it is not
OncePath(done) == IF done THEN "dispatch" ELSE "lock"

\* swagger.go 168, once.Do: the load of the done flag
OnceLoad(g) ==
    /\ pc[g] = "once"
    /\ Calls(g, <<Call("once.Do", "")>>)
    /\ Goto(g, OncePath(once))
    /\ UNCHANGED <<config, once, Prefix, registry, seenGET, onceM, greq, gresp,
                   writes, setup, wrap, log>>

\* once.Do: lock the mutex and look at the flag again
OnceLock(g) ==
    /\ pc[g] = "lock"
    /\ onceM = Free
    /\ onceM' = g
    /\ Goto(g, IF once THEN "unlock" ELSE "f")
    /\ UNCHANGED <<config, once, Prefix, registry, seenGET, greq, gresp, gtrace,
                   writes, setup, wrap, log>>

\* swagger.go 169: config.Handler.Prefix = matches[1]
WritePrefix(g) ==
    /\ pc[g] = "f"
    /\ Prefix' = [Prefix EXCEPT ![config.Handler] = Submatches[greq[g].uri].m1]
    /\ writes' = writes + 1
    /\ Calls(g, <<Call("config.Handler.Prefix =", config.Handler)>>)
    /\ Goto(g, "store")
    /\ UNCHANGED <<config, once, registry, seenGET, onceM, greq, gresp, setup,
                   wrap, log>>

\* once.Do: set the done flag after the function has returned
OnceStore(g) ==
    /\ pc[g] = "store"
    /\ once' = TRUE
    /\ Goto(g, "unlock")
    /\ UNCHANGED <<config, Prefix, registry, seenGET, onceM, greq, gresp, gtrace,
                   writes, setup, wrap, log>>

\* once.Do: unlock the mutex
OnceUnlock(g) ==
    /\ pc[g] = "unlock"
    /\ onceM' = Free
    /\ Goto(g, "dispatch")
    /\ UNCHANGED <<config, once, Prefix, registry, seenGET, greq, gresp, gtrace,
                   writes, setup, wrap, log>>

\* swagger.go 172-201: the content type and the branch, which reads
\* config.Handler, its Prefix and the registry
Respond(g) ==
    /\ pc[g] = "dispatch"
    /\ \E out \in {Switches(config, Prefix, registry, greq[g].uri,
                            Submatches[greq[g].uri])} :
          /\ gresp' = [gresp EXCEPT ![g] = out.resp]
          /\ Calls(g, out.calls)
    /\ seenGET' = (seenGET \/ greq[g].method = "GET")
    /\ Goto(g, "done")
    /\ UNCHANGED <<config, once, Prefix, registry, onceM, greq, writes, setup, wrap>>

Dispatch(g) == Respond(g) /\ UNCHANGED log

\* The closure returns (or its panic unwinds) and the goroutine is free again
Return(g) ==
    /\ pc[g] = "done"
    /\ greq' = [greq EXCEPT ![g] = NoRequest]
    /\ gresp' = [gresp EXCEPT ![g] = NoResponse]
    /\ gtrace' = [gtrace EXCEPT ![g] = << >>]
    /\ Goto(g, "idle")
    /\ UNCHANGED <<config, once, Prefix, registry, seenGET, onceM, writes, setup,
                   wrap, log>>

\* swag.Register(name, doc) by the embedding application
Register(name) ==
    /\ name \notin registry
    /\ registry' = registry \cup {name}
    /\ UNCHANGED <<config, once, Prefix, seenGET, onceM, pc, greq, gresp, gtrace,
                   writes, setup, wrap, log>>

\* The steps of a goroutine between the arrival of its request and the two
\* switches
Gate(g) ==
    \/ NilCheck(g)
    \/ SetDefault(g)
    \/ OnceLoad(g)
    \/ OnceLock(g)
    \/ WritePrefix(g)
    \/ OnceStore(g)
    \/ OnceUnlock(g)

(***************************************************************************)
(* One dispatcher and its requests.  The request on the first goroutine is *)
(* of any method and URI; the request that overlaps with it on the second  *)
(* is a GET for one of the mount points.                                   *)
(***************************************************************************)
OverlapURIs == {Mount(MaxDepth)}

Next ==
    \/ \E method \in Methods, uri \in URIs : Arrive("g1", method, uri)
    \/ \E uri \in OverlapURIs : Arrive("g2", "GET", uri)
    \/ \E g \in Goroutines : Gate(g) \/ Dispatch(g) \/ Return(g)
    \/ \E name \in InstanceNames : Register(name)

Spec == Init /\ [][Next]_vars

(***************************************************************************)
(* The first requests of a dispatcher, of any method on either goroutine,  *)
(* for the mount points and an asset under them.                           *)
(***************************************************************************)
ConcURIs ==
    {m \o g : m \in Mounts, g \in {Empty, ACss}}
    \cup {<<SLASH>> \o IndexHtml, <<SLASH, QMARK, "d">>}

ConcInit ==
    /\ Init
    /\ config \in {newConfig(<< >>), newConfig(<<WebdavHandler(Custom)>>)}
    /\ registry = {SwagName}

ConcNext ==
    \E g \in Goroutines :
        \/ \E method \in Methods, uri \in ConcURIs : Arrive(g, method, uri)
        \/ NilCheck(g)
        \/ SetDefault(g)
        \/ OnceLoad(g)
        \/ OnceLock(g)
        \/ WritePrefix(g)
        \/ OnceStore(g)
        \/ OnceUnlock(g)
        \/ Dispatch(g)
        \/ Return(g)

ConcSpec == ConcInit /\ [][ConcNext]_vars

\* The shared cells the next step of a goroutine writes outside once.Do
\* (swagger.go 165), and those it reads or writes at all (swagger.go 164,
\* 165, 169, 198, 200)
WritesOutsideGate(g) ==
    IF pc[g] = "default" THEN {"config.Handler"} ELSE {}
Accesses(g) ==
    CASE pc[g] \in {"nilcheck", "default"} -> {"config.Handler"}
      [] pc[g] = "f" -> {"config.Handler", "config.Handler.Prefix"}
      [] pc[g] = "dispatch" ->
            IF Branch(FindStringSubmatch(greq[g].uri).m2) \in {"redirect", "asset"}
            THEN {"config.Handler", "config.Handler.Prefix"}
            ELSE {}
      [] OTHER -> {}

(***************************************************************************)
(* The dispatcher with a record of its requests: each entry of the log is  *)
(* a request that reached the two switches, the response to it, the        *)
(* registry it was answered from and whether it was the request that       *)
(* latched the prefix.  The log keeps the last two.                        *)
(***************************************************************************)
LogURIs == {m \o g : m \in {Mount(0), Mount(1)}, g \in {IndexHtml, DocJson}}

DispatchLogged(g) ==
    /\ Respond(g)
    /\ log' = (IF log = << >> THEN << >> ELSE <<log[Len(log)]>>)
               \o <<[req |-> greq[g], resp |-> gresp'[g], registry |-> registry,
                     first |-> \E i \in DOMAIN gtrace[g] :
                                   gtrace[g][i].call = "config.Handler.Prefix ="]>>

LogNext ==
    \/ \E method \in Methods, uri \in LogURIs : Arrive("g1", method, uri)
    \/ \E uri \in OverlapURIs : Arrive("g2", "GET", uri)
    \/ \E g \in Goroutines : Gate(g) \/ DispatchLogged(g) \/ Return(g)
    \/ \E name \in InstanceNames : Register(name)

LogSpec == Init /\ [][LogNext]_vars

(***************************************************************************)
(* Two dispatchers in one process: the one Handler(configFns...) returned  *)
(* and the package's WrapHandler (swagger.go 16), each with a Config and a *)
(* Once of its own, neither with an asset server of its own, so that both  *)
(* come to use swaggerFiles.Handler and the one Prefix it has.  The Once   *)
(* of one dispatcher does not order its accesses to that Prefix against    *)
(* those of the other, and a string is two words, a pointer and a length,  *)
(* each written and read on its own: the steps below write the two words   *)
(* one at a time, in either order.                                         *)
(***************************************************************************)
WrapInit == Init /\ config.Handler = Nil /\ registry = {SwagName}

\* The hosting server runs the requests to the dispatcher of Handler() on
\* one goroutine and those to WrapHandler on the other
Runs(g) == IF g = "g1" THEN "Handler" ELSE "WrapHandler"

\* The Config, the done flag and the mutex of a dispatcher
ConfigOf(d) == IF d = "Handler" THEN config ELSE WrapHandler.config
DoneOf(d) == IF d = "Handler" THEN once ELSE WrapHandler.once
MutexOf(d) == IF d = "Handler" THEN onceM ELSE WrapHandler.m

\* An assignment to one of the three, the other dispatcher left alone
Assign(d, field, value) ==
    IF d = "Handler"
    THEN /\ config' = IF field = "config" THEN value ELSE config
         /\ once' = IF field = "once" THEN value ELSE once
         /\ onceM' = IF field = "m" THEN value ELSE onceM
         /\ WrapHandler' = WrapHandler
    ELSE /\ WrapHandler' = [WrapHandler EXCEPT ![field] = value]
         /\ UNCHANGED <<config, once, onceM>>

\* A byte read through a nil pointer, and a byte behind the end of the
\* string the pointer points into
NilByte == "nil byte"
Beyond == "byte beyond"

\* The string of n bytes at a pointer; the pointer of "" is nil
Denote(ptr, n) ==
    [i \in 1..n |-> IF ptr = Empty THEN NilByte
                    ELSE IF i <= Len(ptr) THEN ptr[i]
                    ELSE Beyond]

\* swagger.go 164: the read of config.Handler
WrapNilCheck(g) ==
    /\ pc[g] = "nilcheck"
    /\ Goto(g, IF ConfigOf(Runs(g)).Handler = Nil THEN "default" ELSE "once")
    /\ UNCHANGED <<config, once, Prefix, registry, seenGET, onceM, greq, gresp,
                   gtrace, writes, setup, wrap, log>>

\* swagger.go 165: the write of config.Handler
WrapSetDefault(g) ==
    /\ pc[g] = "default"
    /\ Assign(Runs(g), "config", DefaultHandler(ConfigOf(Runs(g))))
    /\ Calls(g, <<Call("config.Handler =", SwaggerFiles)>>)
    /\ Goto(g, "once")
    /\ UNCHANGED <<Prefix, registry, seenGET, greq, gresp, writes, setup, log, backing>>

\* swagger.go 168, once.Do: the load of the done flag
WrapOnceLoad(g) ==
    /\ pc[g] = "once"
    /\ Calls(g, <<Call("once.Do", "")>>)
    /\ Goto(g, OncePath(DoneOf(Runs(g))))
    /\ UNCHANGED <<config, once, Prefix, registry, seenGET, onceM, greq, gresp,
                   writes, setup, wrap, log>>

\* once.Do: lock the mutex and look at the flag again
WrapOnceLock(g) ==
    /\ pc[g] = "lock"
    /\ MutexOf(Runs(g)) = Free
    /\ Assign(Runs(g), "m", g)
    /\ Goto(g, IF DoneOf(Runs(g)) THEN "unlock" ELSE "f")
    /\ UNCHANGED <<Prefix, registry, seenGET, greq, gresp, gtrace, writes, setup,
                   log, backing>>

\* swagger.go 169, config.Handler.Prefix = matches[1]: the pointer word.
\* matches[1] is the head of r.RequestURI and points at its first byte.
WritePtr(g) ==
    LET server == ConfigOf(Runs(g)).Handler IN
    /\ pc[g] \in {"f", "f.ptr"}
    /\ backing' = [backing EXCEPT ![server] = greq[g].uri]
    /\ Prefix' = [Prefix EXCEPT ![server] = Denote(greq[g].uri, Len(Prefix[server]))]
    /\ writes' = IF pc[g] = "f" THEN writes ELSE writes + 1
    /\ Calls(g, IF pc[g] = "f" THEN << >>
                ELSE <<Call("config.Handler.Prefix =", server)>>)
    /\ Goto(g, IF pc[g] = "f" THEN "f.len" ELSE "store")
    /\ UNCHANGED <<config, once, registry, seenGET, onceM, greq, gresp, setup,
                   WrapHandler, log>>

\* swagger.go 169, config.Handler.Prefix = matches[1]: the length word
WriteLen(g) ==
    LET server == ConfigOf(Runs(g)).Handler
        m1 == FindStringSubmatch(greq[g].uri).m1
    IN  /\ pc[g] \in {"f", "f.len"}
        /\ Prefix' = [Prefix EXCEPT ![server] = Denote(backing[server], Len(m1))]
        /\ writes' = IF pc[g] = "f" THEN writes ELSE writes + 1
        /\ Calls(g, IF pc[g] = "f" THEN << >>
                    ELSE <<Call("config.Handler.Prefix =", server)>>)
        /\ Goto(g, IF pc[g] = "f" THEN "f.ptr" ELSE "store")
        /\ UNCHANGED <<config, once, registry, seenGET, onceM, greq, gresp, setup,
                       wrap, log>>

\* once.Do: set the done flag after the function has returned
WrapOnceStore(g) ==
    /\ pc[g] = "store"
    /\ Assign(Runs(g), "once", TRUE)
    /\ Goto(g, "unlock")
    /\ UNCHANGED <<Prefix, registry, seenGET, greq, gresp, gtrace, writes, setup,
                   log, backing>>

\* once.Do: unlock the mutex
WrapOnceUnlock(g) ==
    /\ pc[g] = "unlock"
    /\ Assign(Runs(g), "m", Free)
    /\ Goto(g, "dispatch")
    /\ UNCHANGED <<Prefix, registry, seenGET, greq, gresp, gtrace, writes, setup,
                   log, backing>>

\* swagger.go 172-201: the content type and the branch.  The redirect and
\* the asset server read Prefix; bytes read through a nil pointer are a
\* fault, which ends the request in a panic.
WrapDispatch(g) ==
    LET c == ConfigOf(Runs(g))
        uri == greq[g].uri
        reads == Branch(Submatches[uri].m2) \in {"redirect", "asset"}
    IN  /\ pc[g] = "dispatch"
        /\ \E out \in {Switches(c, Prefix, registry, uri, Submatches[uri])} :
              IF reads /\ \E i \in DOMAIN Prefix[c.Handler] :
                              Prefix[c.Handler][i] = NilByte
              THEN /\ gresp' = [gresp EXCEPT ![g] = Panicked]
                   /\ Calls(g, <<Call("filepath.Ext", ""), Call("panic", "")>>)
              ELSE /\ gresp' = [gresp EXCEPT ![g] = out.resp]
                   /\ Calls(g, out.calls)
        /\ seenGET' = (seenGET \/ greq[g].method = "GET")
        /\ Goto(g, "done")
        /\ UNCHANGED <<config, once, Prefix, registry, onceM, greq, writes, setup,
                       wrap, log>>

WrapNext ==
    \E g \in Goroutines :
        \/ \E method \in Methods, uri \in ConcURIs : Arrive(g, method, uri)
        \/ WrapNilCheck(g)
        \/ WrapSetDefault(g)
        \/ WrapOnceLoad(g)
        \/ WrapOnceLock(g)
        \/ WritePtr(g)
        \/ WriteLen(g)
        \/ WrapOnceStore(g)
        \/ WrapOnceUnlock(g)
        \/ WrapDispatch(g)
        \/ Return(g)

WrapSpec == WrapInit /\ [][WrapNext]_vars

(***************************************************************************)
(* The construction of the Config: Handler calls newConfig with the        *)
(* mutators it was given (swagger.go 146, 121-140).  The mutators of the   *)
(* model set every field, some of them with two values.                    *)
(***************************************************************************)
ConfigFns ==
    <<URL("v1.json"), URL("v2.json"),
      DeepLinking(FALSE),
      DocExpansion("full"), DocExpansion("none"),
      DomID("ui"),
      InstanceName("v2"), InstanceName(""),
      PersistAuthorization(TRUE),
      Plugins(<<"P1", "P2">>),
      UIConfig({<<<<"k", "2">>, "v2">>, <<<<"k">>, "v">>}),
      BeforeScript("before()"),
      AfterScript("after()"),
      WebdavHandler(Custom)>>

\* newConfig is entered: the struct literal is built, no mutator has run
ConfigInit ==
    /\ \E n \in 0..MaxFns : \E choice \in [1..n -> DOMAIN ConfigFns] :
          configFns = [i \in 1..n |-> ConfigFns[choice[i]]]
    /\ built = FALSE
    /\ config = Defaults
    /\ once = FALSE
    /\ Prefix = [a \in AssetServers |-> Empty]
    /\ registry = {}
    /\ trace = << >>
    /\ seenGET = FALSE
    /\ onceM = Free
    /\ pc = [g \in Goroutines |-> "idle"]
    /\ greq = [g \in Goroutines |-> NoRequest]
    /\ gresp = [g \in Goroutines |-> NoResponse]
    /\ gtrace = [g \in Goroutines |-> << >>]
    /\ writes = 0
    /\ WrapHandler = [config |-> newConfig(<< >>), once |-> FALSE, m |-> Free]
    /\ backing = [a \in AssetServers |-> Empty]
    /\ log = << >>

\* config := newConfig(configFns...): the trace is the mutators called
Construct ==
    /\ ~built
    /\ config' = newConfig(configFns)
    /\ trace' = [i \in DOMAIN configFns |-> Call(configFns[i].fn, configFns[i].arg)]
    /\ configFns' = << >>
    /\ built' = TRUE
    /\ UNCHANGED <<once, Prefix, registry, seenGET, onceM, pc, greq, gresp,
                   gtrace, writes, wrap, log>>

ConfigNext == Construct

ConfigSpec == ConfigInit /\ [][ConfigNext]_vars

(***************************************************************************)
(* Properties.                                                             *)
(***************************************************************************)
\* The asset server the dispatcher uses, and its Prefix
Server == IF config.Handler = Nil THEN SwaggerFiles ELSE config.Handler
AssetPrefix == Prefix[Server]

\* A goroutine has run the closure to its end for its request
Handled(g) == pc[g] = "done"

\* The submatches of the RequestURI of the request a goroutine handles
MatchesOf(g) == Submatches[greq[g].uri]

\* The step in which a goroutine runs the closure to its end
Ends(g) == pc[g] # "done" /\ pc'[g] = "done"

\* Did the goroutine make this call for its request ?
Made(g, name) == \E i \in DOMAIN gtrace[g] : gtrace[g][i].call = name
CallsOf(g, name) == SelectSeq(gtrace[g], LAMBDA e : e.call = name)

\* The calls that are the four dispatch branches
BranchCalls ==
    {"index.Execute", "swag.ReadDoc", "http.Redirect", "config.Handler.ServeHTTP"}
BranchCall(branch) ==
    CASE branch = "index" -> "index.Execute"
      [] branch = "doc" -> "swag.ReadDoc"
      [] branch = "redirect" -> "http.Redirect"
      [] branch = "asset" -> "config.Handler.ServeHTTP"

\* A goroutine has run the closure to its end for a GET request
Finished(g) == pc[g] = "done" /\ greq[g].method = "GET"

\* A goroutine is past once.Do
PastGate(g) == pc[g] = "dispatch" \/ (Finished(g) /\ ~gresp[g].panicked)

\* What a finished goroutine answered is what the latched prefix gives
ReadLatched(g) ==
    LET uri == greq[g].uri
        m == FindStringSubmatch(uri)
    IN  /\ Branch(m.m2) = "redirect" =>
              gresp[g] = RedirectResponse(AssetPrefix \o IndexHtml, uri,
                                          ContentTypeOf(m.m2))
        /\ Branch(m.m2) = "asset" =>
              gresp[g] = AssetResponse(Server, AssetPrefix, uri, ContentTypeOf(m.m2))

\* The one-shot gate: the prefix is never assigned twice, a goroutine past
\* the gate finds it assigned, and what it then reads is the assigned value
OneShotGate ==
    /\ writes <= 1
    /\ \A g \in Goroutines :
          PastGate(g) =>
              /\ writes = 1
              /\ once
              /\ AssetPrefix # Empty
              /\ (pc[g] = "done" => ReadLatched(g))

\* C1: once a GET request has been handled to its end, concurrently with
\* others or not, exactly one write of the asset server's Prefix has occurred,
\* and a request that read the prefix read the written value.
C1_ExactlyOneWrite ==
    \A g \in Goroutines :
        Finished(g) => writes = 1 /\ (~gresp[g].panicked => ReadLatched(g))

\* C2: when the first GET request has been handled to its end, the prefix
\* is the one resolved from the URI of that request, or of a request that
\* raced with it to be the first; and from then on no step of any request,
\* of any method, URI and outcome, changes the prefix.
C2_FirstGetLatches ==
    [][/\ (~seenGET /\ seenGET') =>
              \E g \in Goroutines :
                  /\ greq'[g].method = "GET"
                  /\ Submatches[greq'[g].uri].ok
                  /\ AssetPrefix' = Submatches[greq'[g].uri].m1
       /\ seenGET => Prefix' = Prefix]_vars

\* C3: a GET request whose relative path is empty gets 301 with Location its
\* own prefix followed by index.html, whatever was handled before it.
C3_RedirectToOwnPrefix ==
    \A g \in Goroutines :
        (Finished(g) /\ MatchesOf(g).ok /\ MatchesOf(g).m2 = Empty) =>
            /\ gresp[g].status = 301
            /\ gresp[g].location = MatchesOf(g).m1 \o IndexHtml

\* C4: every GET request takes exactly one of the four branches, the one its
\* relative path selects, and index.html and doc.json never reach the asset
\* server.
C4_OneBranchByPath ==
    \A g \in Goroutines :
        Finished(g) =>
            /\ MatchesOf(g).ok
            /\ \A b \in BranchCalls :
                  Len(CallsOf(g, b)) =
                      IF b = BranchCall(Branch(MatchesOf(g).m2)) THEN 1 ELSE 0
            /\ MatchesOf(g).m2 \in {IndexHtml, DocJson} =>
                  ~Made(g, "config.Handler.ServeHTTP")

\* C5: a request with a method other than GET gets 405 with the text
\* "Method not allowed" in the step it arrives with, and nothing else
\* happens: no pattern match, no write of the prefix, the gate not consumed,
\* no fetch, no render, no asset call.
C5_MethodGuard ==
    [][\A g \in Goroutines :
          (pc[g] = "idle" /\ pc'[g] # "idle" /\ greq'[g].method # "GET") =>
              /\ pc'[g] = "done"
              /\ gresp'[g] = Response(405, "text/plain; charset=utf-8", Empty,
                                      <<"Method not allowed", "\n">>)
              /\ gtrace'[g] = <<Call("http.Error", "Method not allowed")>>
              /\ config' = config
              /\ once' = once
              /\ onceM' = onceM
              /\ Prefix' = Prefix
              /\ writes' = writes]_vars

\* A POST for the entry page, as the first request, was refused and the gate
\* is still unused
C5_Witness ==
    /\ Handled("g1")
    /\ greq["g1"] = [method |-> "POST", uri |-> <<SLASH>> \o IndexHtml]
    /\ gresp["g1"].status = 405
    /\ pc["g2"] = "idle"
    /\ ~once
    /\ writes = 0

\* C6: a GET for doc.json fetches the registry once, by the configured
\* instance name; a document found is the whole body of a 200 answer of type
\* application/json; a fetch that fails gives 500 with the generic status text
\* and nothing else: no document bytes, no error text, no write before it.
C6_DocFetch ==
    [][\A g \in Goroutines :
          (Ends(g) /\ greq[g].method = "GET"
           /\ MatchesOf(g).ok /\ MatchesOf(g).m2 = DocJson) =>
              LET name == config.InstanceName
                  fetches == SelectSeq(gtrace'[g], LAMBDA e : e.call = "swag.ReadDoc")
                  writes1 == SelectSeq(gtrace'[g], LAMBDA e : e.call = "w.Write")
              IN  /\ Len(fetches) = 1
                  /\ fetches[1].arg = name
                  /\ IF name \in registry
                     THEN /\ gresp'[g].status = 200
                          /\ gresp'[g].ctype = "application/json; charset=utf-8"
                          /\ gresp'[g].body = <<Doc(name)>>
                     ELSE /\ gresp'[g].status = 500
                          /\ gresp'[g].body = <<"Internal Server Error", "\n">>
                          /\ writes1 = << >>
                          /\ gtrace'[g][Len(gtrace'[g])] =
                                Call("http.Error", "Internal Server Error")]_vars

\* A GET for doc.json failed for the configured instance "v2" while the
\* document of the default instance is registered
C6_Witness ==
    /\ Finished("g1")
    /\ MatchesOf("g1").ok /\ MatchesOf("g1").m2 = DocJson
    /\ config.InstanceName = "v2"
    /\ registry = {SwagName}
    /\ gresp["g1"].status = 500

\* The components the path resolver is specified to return: the prefix ends
\* with the last slash in front of the query string, the relative path is
\* what follows it up to the query string
SpecifiedPrefix(uri) == UpTo(URLPath(uri), LastIndexOf(URLPath(uri), SLASH))
SpecifiedRelative(uri) == From(URLPath(uri), LastIndexOf(URLPath(uri), SLASH) + 1)

\* C7: for a request URI the pattern matches, the prefix is everything up to
\* and including the slash in front of the final path segment and the
\* relative path is that segment without the query string.
C7_PathResolver ==
    \A g \in Goroutines :
        (greq[g].method = "GET" /\ pc[g] # "idle" /\ MatchesOf(g).ok) =>
            /\ MatchesOf(g).m1 = SpecifiedPrefix(greq[g].uri)
            /\ MatchesOf(g).m2 = SpecifiedRelative(greq[g].uri)

\* C8: a GET whose path ends in "/" takes the redirect branch and resolves
\* to that path as prefix, with a query string as without one.
C8_QueryKeepsRedirect ==
    \A g \in Goroutines :
        (Finished(g) /\ MatchesOf(g).ok
         /\ HasSuffix(URLPath(greq[g].uri), <<SLASH>>)) =>
            /\ Made(g, "http.Redirect")
            /\ gresp[g].status = 301
            /\ MatchesOf(g).m1 = URLPath(greq[g].uri)

\* C9: every GET request, whatever its URI, ends with a response and never
\* with a panic.
C9_NeverPanics ==
    \A g \in Goroutines :
        Finished(g) => ~gresp[g].panicked /\ gresp[g] # NoResponse

\* C10: no step of a request changes a field of the Configuration.
C10_ConfigReadOnly == [][config' = config]_vars

\* C11: in no state is one request about to write a shared cell (a field of
\* the Config or the Prefix of the asset server) outside once.Do while
\* another request is about to read or write the same cell.
C11_NoUngatedWrite ==
    \A g, h \in Goroutines :
        g # h => WritesOutsideGate(g) \cap Accesses(h) = {}

\* The argument of the last call of the mutator of this name, or the default
\* when it was not called
LastSet(name, default) ==
    LET calls == {i \in DOMAIN trace : trace[i].call = name} IN
    IF calls = {} THEN default
    ELSE trace[CHOOSE i \in calls : \A j \in calls : j <= i].arg

\* C12: the Config newConfig returns has in each field the value of the last
\* mutator that sets it, or the default when none does (URL "doc.json",
\* DocExpansion "list", DomID "swagger-ui", DeepLinking true,
\* PersistAuthorization false, the other fields zero), except that an empty
\* InstanceName has become swag.Name: InstanceName is never empty.
C12_LastMutatorWins ==
    built =>
        /\ config.URL = LastSet("URL", "doc.json")
        /\ config.DocExpansion = LastSet("DocExpansion", "list")
        /\ config.DomID = LastSet("DomID", "swagger-ui")
        /\ config.DeepLinking = LastSet("DeepLinking", TRUE)
        /\ config.PersistAuthorization = LastSet("PersistAuthorization", FALSE)
        /\ config.BeforeScript = LastSet("BeforeScript", "")
        /\ config.AfterScript = LastSet("AfterScript", "")
        /\ config.Plugins = LastSet("Plugins", << >>)
        /\ config.UIConfig = LastSet("UIConfig", {})
        /\ config.Handler = LastSet("WebdavHandler", Nil)
        /\ config.InstanceName =
              (IF LastSet("InstanceName", "swagger") = "" THEN "swagger"
               ELSE LastSet("InstanceName", "swagger"))
        /\ config.InstanceName # ""

\* newConfig has run InstanceName("v2") and then InstanceName(""): the name
\* of the Config is swag.Name
C12_Witness ==
    /\ built
    /\ Len(trace) = 2
    /\ trace[1].call = "InstanceName" /\ trace[1].arg = "v2"
    /\ trace[2].call = "InstanceName" /\ trace[2].arg = ""
    /\ config.InstanceName = "swagger"

\* The fixed table of extensions and content types; "" for any other
\* extension and for none
TableType(ext) ==
    CASE ext = <<".", "h", "t", "m", "l">> -> "text/html; charset=utf-8"
      [] ext = <<".", "c", "s", "s">> -> "text/css; charset=utf-8"
      [] ext = <<".", "j", "s">> -> "application/javascript"
      [] ext = <<".", "p", "n", "g">> -> "image/png"
      [] ext = <<".", "j", "s", "o", "n">> -> "application/json; charset=utf-8"
      [] OTHER -> ""

\* C13: for every GET request the pattern matches, the Content-Type header
\* is set once, before the branch is taken, to the table's type for the
\* extension of the relative path, and is not set at all when the table has
\* none; so a request for an asset with a known extension reaches the asset
\* server with the header set, and the file it serves carries it.
C13_TypeBeforeDispatch ==
    \A g \in Goroutines :
        (Finished(g) /\ MatchesOf(g).ok) =>
            LET t == gtrace[g]
                expected == TableType(Ext(MatchesOf(g).m2))
                sets == {i \in DOMAIN t : t[i].call = "Header.Set Content-Type"}
                branches == {i \in DOMAIN t : t[i].call \in BranchCalls}
            IN  /\ expected = "" => sets = {}
                /\ expected # "" =>
                      /\ Cardinality(sets) = 1
                      /\ \A i \in sets :
                            /\ t[i].arg = expected
                            /\ \A j \in branches : i < j
                /\ Made(g, "config.Handler.ServeHTTP") => gresp[g].ctype = expected

\* GET /d/a.css was delegated to the asset server after the header had been
\* set to text/css, and the file came back with it
C13_Witness ==
    /\ Handled("g1")
    /\ greq["g1"] = [method |-> "GET", uri |-> <<SLASH>> \o DirD \o <<SLASH>> \o ACss]
    /\ \E i, j \in DOMAIN gtrace["g1"] :
          /\ i < j
          /\ gtrace["g1"][i] = Call("Header.Set Content-Type", "text/css; charset=utf-8")
          /\ gtrace["g1"][j].call = "config.Handler.ServeHTTP"
    /\ gresp["g1"].status = 0
    /\ gresp["g1"].ctype = "text/css; charset=utf-8"

\* C14: when the same GET request for index.html or for doc.json is answered
\* twice with the same registry, the two responses are the same in status,
\* content type and body, also when the first of the two is the request
\* that latched the prefix.
C14_SameRequestSameResponse ==
    (/\ Len(log) = 2
     /\ log[1].req = log[2].req
     /\ log[1].registry = log[2].registry
     /\ log[2].req.method = "GET"
     /\ FindStringSubmatch(log[2].req.uri).ok
     /\ FindStringSubmatch(log[2].req.uri).m2 \in {IndexHtml, DocJson}) =>
        /\ log[1].resp.status = log[2].resp.status
        /\ log[1].resp.ctype = log[2].resp.ctype
        /\ log[1].resp.body = log[2].resp.body
        /\ log[1].resp = log[2].resp

\* GET /d/index.html was the first request of a dispatcher without asset
\* server of its own, which latched the prefix, and was sent again: 200 twice
C14_Witness ==
    /\ Len(log) = 2
    /\ log[1].first
    /\ log[1].req = [method |-> "GET", uri |-> <<SLASH>> \o DirD \o <<SLASH>> \o IndexHtml]
    /\ log[2].req = log[1].req
    /\ log[1].registry = log[2].registry
    /\ log[2].resp.status = 200
    /\ config.Handler = SwaggerFiles
    /\ writes = 1

\* C15: a request that ends in 405 or in 500 has left the Configuration, the
\* Once and the Prefix as they were: it made no write of config.Handler and
\* none of the Prefix, so that every other request is answered as it would
\* have been answered had the failing request not been issued.
C15_FailureFrame ==
    \A g \in Goroutines :
        (Handled(g) /\ gresp[g].status \in {405, 500}) =>
            /\ ~Made(g, "config.Handler =")
            /\ ~Made(g, "config.Handler.Prefix =")

\* The asset server WrapHandler uses
WrapServer ==
    IF WrapHandler.config.Handler = Nil THEN SwaggerFiles
    ELSE WrapHandler.config.Handler

\* C16: of two dispatchers built by separate calls of Handler without an
\* asset server of their own, each keeps the prefix its own first GET
\* latched: once a dispatcher has latched, no request to either dispatcher
\* changes the prefix it redirects and delegates with.
C16_OwnPrefixKept ==
    [][/\ once => Prefix'[Server] = Prefix[Server]
       /\ WrapHandler.once => Prefix'[WrapServer] = Prefix[WrapServer]]_vars

\* C17: whenever a request takes the redirect branch or is delegated to the
\* asset server, under any interleaving, the one write of the prefix has
\* been made and no write is under way, so the prefix it reads is set, and
\* its response is the one the written prefix gives.
C17_DispatchAfterWrite ==
    [][\A g \in Goroutines :
          LET uri == greq[g].uri
              m == FindStringSubmatch(uri)
          IN  (pc[g] = "dispatch" /\ pc'[g] = "done"
               /\ Branch(m.m2) \in {"redirect", "asset"}) =>
                  /\ writes = 1
                  /\ \A h \in Goroutines : pc[h] \notin {"f"}
                  /\ Prefix[config.Handler] # Empty
                  /\ Branch(m.m2) = "redirect" =>
                        /\ gresp'[g].status = 301
                        /\ gresp'[g].location =
                              RedirectLocation(Prefix[config.Handler] \o IndexHtml, uri)
                  /\ Branch(m.m2) = "asset" =>
                        gresp'[g] = AssetResponse(config.Handler, Prefix[config.Handler],
                                                  uri, ContentTypeOf(m.m2))]_vars

\* GET / has been redirected with the prefix "/d/", which the concurrent
\* GET /d/ wrote: that request is still inside once.Do, holding the mutex
C17_Witness ==
    /\ pc["g1"] = "done"
    /\ greq["g1"] = [method |-> "GET", uri |-> <<SLASH>>]
    /\ gresp["g1"].status = 301
    /\ gresp["g1"].location = <<SLASH>> \o DirD \o <<SLASH>> \o IndexHtml
    /\ pc["g2"] = "unlock"
    /\ greq["g2"] = [method |-> "GET", uri |-> <<SLASH>> \o DirD \o <<SLASH>>]
    /\ onceM = "g2"
    /\ writes = 1

\* C18: whenever a GET request has been delegated to the asset server, the
\* Prefix of the asset server is a leading part of the URI of that request,
\* whatever requests were handled before it.
C18_PrefixLeadsURI ==
    \A g \in Goroutines :
        (Finished(g) /\ Made(g, "config.Handler.ServeHTTP")) =>
            HasPrefix(greq[g].uri, AssetPrefix)
====
